---- MODULE Spec2Model ----
(***************************************************************************)
(* Model of src/main.py: the iterative repository walker                   *)
(* (traverse_repo_iteratively), the content extractor                      *)
(* (get_file_contents_iteratively), analyze_repo and the command-line      *)
(* entry point.                                                            *)
(*                                                                         *)
(* Strings are sequences of one-character strings, so that joining paths,  *)
(* stripping ignore-file lines and splitting extensions are computed the   *)
(* way the library functions compute them.                                 *)
(***************************************************************************)
EXTENDS Integers, Sequences, FiniteSets, TLC

VARIABLES
    disk,            \* the filesystem, the ignore file and their faults (never changes)
    phase,           \* position in __main__ / analyze_repo
    wpc,             \* position inside the running traverse_repo_iteratively generator
    dirs_to_visit,   \* main.py:39  (stack of relative paths of directories to expand)
    dirs_visited,    \* main.py:40
    ignored_paths,   \* main.py:43
    relative_path,   \* main.py:46  (directory being expanded)
    entries,         \* main.py:49  (entries of that directory still to process)
    events,          \* history: expansions and yields of the running generator
    readme_content,  \* main.py:186
    repo_structure,  \* main.py:189-191 (the yielded paths, in order)
    file_contents,   \* main.py:194-196 (the (path, content) pairs, in order)
    tested,          \* history: (path, extension) pairs tested at main.py:157
    log,             \* logging.warning / logging.debug / logging.error calls
    error,           \* the exception that left analyze_repo, if any
    output_file      \* main.py:214-219

vars == <<disk, phase, wpc, dirs_to_visit, dirs_visited, ignored_paths,
          relative_path, entries, events, readme_content, repo_structure,
          file_contents, tested, log, error, output_file>>

---------------------------------------------------------------------------
(* Bounds of the model *)

\* Longest prefix (over the letters "a" and ".") of the varying file name.
MaxPrefixLen == 1

\* Most path segments of a directory the walker may queue (only a symlink
\* cycle makes paths longer than the tree is deep).
MaxPathDepth == 3

\* Most faulty objects (unlistable directory, unreadable file) on the disk.
MaxFaults == 1

---------------------------------------------------------------------------
(* Strings *)

SEP == "/"

Whitespace == {" ", "\n", "\t"}

\* All sequences over S of length at most n.
RECURSIVE SeqsUpTo(_, _)
SeqsUpTo(S, n) ==
    IF n = 0 THEN {<<>>}
    ELSE LET shorter == SeqsUpTo(S, n - 1)
         IN  shorter \cup {Append(s, c) : s \in shorter, c \in S}

Range(s) == {s[i] : i \in 1..Len(s)}

\* str.rfind(c): the last index of c in s, 0 when there is none (Python: -1).
rfind(s, c) ==
    LET hits == {i \in 1..Len(s) : s[i] = c}
    IN  IF hits = {} THEN 0 ELSE CHOOSE i \in hits : \A j \in hits : j <= i

\* str.startswith
startswith(s, p) == Len(p) <= Len(s) /\ SubSeq(s, 1, Len(p)) = p

\* str.strip(): leading and trailing whitespace removed.
strip(s) ==
    LET solid == {i \in 1..Len(s) : s[i] \notin Whitespace}
    IN  IF solid = {} THEN <<>>
        ELSE LET lo == CHOOSE i \in solid : \A j \in solid : i <= j
                 hi == CHOOSE i \in solid : \A j \in solid : j <= i
             IN  SubSeq(s, lo, hi)

\* Variant: a separator is always put between the two components.
joinNoSep(a, b) == a \o <<SEP>> \o b

\* os.path.join(a, b) of posixpath for two components.
join(a, b) ==
    IF startswith(b, <<SEP>>) THEN b
    ELSE IF a = <<>> \/ a[Len(a)] = SEP THEN a \o b
    ELSE a \o <<SEP>> \o b

\* Variant: the last dot after the last separator always starts the
\* extension.
splitextNoLeadingDotRule(p) ==
    LET sepIndex == rfind(p, SEP)
        dotIndex == rfind(p, ".")
    IN  IF dotIndex > sepIndex THEN SubSeq(p, dotIndex, Len(p)) ELSE <<>>

\* os.path.splitext(p)[1] (genericpath._splitext with sep "/", no altsep):
\* the last dot after the last separator starts the extension, unless only
\* dots stand between the separator and it.
splitext(p) ==
    LET sepIndex == rfind(p, SEP)
        dotIndex == rfind(p, ".")
    IN  IF dotIndex > sepIndex
           /\ \E filenameIndex \in (sepIndex + 1)..(dotIndex - 1) :
                  p[filenameIndex] # "."
        THEN SubSeq(p, dotIndex, Len(p))
        ELSE <<>>

\* The segments of a relative path.
RECURSIVE Segments(_)
Segments(p) ==
    LET seps == {i \in 1..Len(p) : p[i] = SEP}
    IN  IF seps = {} THEN (IF p = <<>> THEN <<>> ELSE <<p>>)
        ELSE LET i == CHOOSE k \in seps : \A j \in seps : k <= j
             IN  <<SubSeq(p, 1, i - 1)>> \o Segments(SubSeq(p, i + 1, Len(p)))

\* binary_extensions, main.py:78-153
binary_extensions == {
      <<".","e","x","e">>, <<".","d","l","l">>, <<".","b","i","n">>,
      <<".","d","a","t">>, <<".","i","m","g">>, <<".","i","s","o">>,
      <<".","p","d","f">>, <<".","a","v","i">>, <<".","m","p","4">>,
      <<".","m","o","v">>, <<".","m","k","v">>, <<".","w","m","v">>,
      <<".","f","l","v">>, <<".","m","p","e","g">>, <<".","m","p","g">>,
      <<".","m","4","v">>, <<".","3","g","p">>, <<".","w","e","b","m">>,
      <<".","t","s">>, <<".","m","t","s">>, <<".","m","2","t","s">>,
      <<".","v","o","b">>, <<".","o","g","g">>, <<".","o","g","v">>,
      <<".","d","i","v","x">>, <<".","x","v","i","d">>, <<".","m","p","3">>,
      <<".","w","a","v">>, <<".","z","i","p">>, <<".","r","a","r">>,
      <<".","t","a","r">>, <<".","g","z">>, <<".","7","z">>,
      <<".","j","p","g">>, <<".","j","p","e","g">>, <<".","j","p","e">>,
      <<".","j","i","f">>, <<".","j","f","i","f">>, <<".","j","f","i">>,
      <<".","p","n","g">>, <<".","g","i","f">>, <<".","b","m","p">>,
      <<".","d","i","b">>, <<".","t","i","f">>, <<".","t","i","f","f">>,
      <<".","w","e","b","p">>, <<".","s","v","g">>, <<".","s","v","g","z">>,
      <<".","i","c","o">>, <<".","j","x","r">>, <<".","w","d","p">>,
      <<".","h","d","p">>, <<".","j","p","2">>, <<".","j","2","k">>,
      <<".","j","p","f">>, <<".","j","p","x">>, <<".","j","p","m">>,
      <<".","m","j","2">>, <<".","o","t","f">>, <<".","t","t","f">>,
      <<".","w","o","f","f">>, <<".","w","o","f","f","2">>, <<".","e","o","t">>,
      <<".","p","f","a">>, <<".","p","f","b">>, <<".","o","t","c">>,
      <<".","t","t","c">>, <<".","d","f","o","n","t">>
    }

\* Variant: the extension is compared without its dot.
IsBinaryWithoutDot(extension) ==
    extension # <<>> /\ Tail(extension) \in binary_extensions

\* main.py:157  extension in binary_extensions
IsBinary(extension) == extension \in binary_extensions

---------------------------------------------------------------------------
(* The disk: a repository, its ignore file, and what fails on it *)
(*                                                                         *)
(*   root/                                                                 *)
(*     s.ts/                 a directory named like a denylisted file      *)
(*       s.ts/                                                             *)
(*         c.txt                                                           *)
(*         <probe>           a file whose name varies over ProbeNames      *)
(*     t/                                                                  *)
(*       b.png                                                             *)
(*       up -> root          a symbolic link, on some disks                *)
(*                                                                         *)
(* No disk has a README.md.  At most MaxFaults directories and files fail   *)
(* when listed or read: a directory with PermissionError ("perm") or with   *)
(* another OSError ("oserr").                                              *)

Dirs  == {"root", "d_s", "d_t", "d_ss"}
Files == {"f_probe", "f_ctxt", "f_bpng"}
NoNode == "none"

N_s     == <<"s", ".", "t", "s">>
N_t     == <<"t">>
N_up    == <<"u", "p">>
N_ctxt  == <<"c", ".", "t", "x", "t">>
N_bpng  == <<"b", ".", "p", "n", "g">>
README  == <<"R", "E", "A", "D", "M", "E", ".", "m", "d">>

\* Names of the varying file: a prefix of "a" and "." followed by nothing or
\* by a denylisted extension ("." and ".." are no file names).
Suffixes == {<<>>, <<".", "p", "n", "g">>}

ProbeNames ==
    {p \o s : p \in SeqsUpTo({"a", "."}, MaxPrefixLen), s \in Suffixes}
        \ {<<>>, <<".">>, <<".", ".">>}

\* The ignore files tried: lists of lines as f.readlines() returns them.
L_s      == <<"s", ".", "t", "s", "\n">>
L_tb     == <<"t", "/", "b", "\n">>
L_blank  == <<"\n">>
L_ss     == <<" ", "s", ".", "t", "s", "/", "s", ".", "t", "s", " ", "\n">>
L_tbpng  == <<"\t", "t", "/", "b", ".", "p", "n", "g", "\n">>
L_ssctxt == <<"s", ".", "t", "s", "/", "s", ".", "t", "s", "/", "c", ".", "t", "x", "t">>

\* The ignore file is absent (or cannot be read).
Missing == [present |-> FALSE, lines |-> <<>>]

IgnoreFiles ==
    {[present |-> TRUE, lines |-> l] :
        l \in {<<>>, <<L_s, L_tb>>, <<L_blank, L_ss>>, <<L_tbpng, L_ssctxt>>}}
    \cup {Missing}

Disks ==
    {d \in [probe       : ProbeNames,
            link        : {NoNode, "root"},
            listing     : [Dirs -> {"ok", "perm", "oserr"}],
            unreadable  : SUBSET Files,
            ignore_file : IgnoreFiles] :
        Cardinality({x \in Dirs : d.listing[x] # "ok"}) + Cardinality(d.unreadable)
            <= MaxFaults}

\* The directory entries of node n: (name, node) pairs.  d_t may hold a
\* symbolic link "up" to another directory.
Entries(n) ==
    CASE n = "root" -> {<<N_s, "d_s">>, <<N_t, "d_t">>}
      [] n = "d_s"  -> {<<N_s, "d_ss">>}
      [] n = "d_ss" -> {<<N_ctxt, "f_ctxt">>, <<disk.probe, "f_probe">>}
      [] n = "d_t"  -> {<<N_bpng, "f_bpng">>}
                         \cup (IF disk.link = NoNode THEN {} ELSE {<<N_up, disk.link>>})
      [] OTHER      -> {}

RECURSIVE Resolve(_, _)
Resolve(n, segs) ==
    IF segs = <<>> THEN n
    ELSE LET hit == {e \in Entries(n) : e[1] = Head(segs)}
         IN  IF hit = {} THEN NoNode
             ELSE Resolve((CHOOSE e \in hit : TRUE)[2], Tail(segs))

\* The node that os.path.join(repo_path, rel) names.
Lookup(rel) == Resolve("root", Segments(rel))

isdir(rel)  == Lookup(rel) \in Dirs       \* os.path.isdir,  main.py:59
isfile(rel) == Lookup(rel) \in Files      \* os.path.isfile, main.py:161
exists(rel) == Lookup(rel) # NoNode       \* os.path.exists, main.py:19

\* open(...).read() of a file: its text, or a failure.
CanRead(rel) == Lookup(rel) \notin disk.unreadable
Content(rel) == <<"text of", Lookup(rel)>>

\* The orders os.listdir may return the entries of node n in.
Listings(n) ==
    LET names == {e[1] : e \in Entries(n)}
    IN  {s \in [1..Cardinality(names) -> names] :
            \A i, j \in 1..Cardinality(names) : i # j => s[i] # s[j]}

Depth(rel) == Len(Segments(rel))

---------------------------------------------------------------------------
(* Decisions of the code *)

\* Variant: a missing ignore file is read as an empty one.
OpensAnyway(file) == TRUE

\* main.py:42  open(ignore_file) succeeds
IgnoreFileOpens(file) == file.present

\* main.py:43  the stripped, non-blank lines
ReadIgnored(file) ==
    LET lines    == file.lines
        stripped == [i \in 1..Len(lines) |-> strip(lines[i])]
    IN  SelectSeq(stripped, LAMBDA l : l # <<>>)

\* Variant: the visited set outlives the call.
KeepVisited(old) == old

\* main.py:40  dirs_visited = set()
NewVisited(old) == {}

\* Variant: pop(0), a first-in first-out queue.
PopFirst(stack) == 1

\* main.py:46  list.pop() takes the last item
PopIndex(stack) == Len(stack)

Without(stack, i) ==
    SubSeq(stack, 1, i - 1) \o SubSeq(stack, i + 1, Len(stack))

\* Variant: no except clause.
CatchesNothing(outcome) == FALSE

\* main.py:50  except PermissionError
Catches(outcome) == outcome = "perm"

\* Variant: the entry's name is looked up instead of its relative path.
IsIgnoredByName(entry_relative_path, entry, ignored) == entry \in Range(ignored)

\* main.py:57  entry_relative_path in ignored_paths
IsIgnored(entry_relative_path, entry, ignored) ==
    entry_relative_path \in Range(ignored)

Sentinel == <<"README.md not found">>

Unread == <<"unread">>

NoOutput == <<>>

Yielded == SelectSeq(events, LAMBDA e : e.kind = "yield")

YieldedPaths == {e.path : e \in Range(Yielded)}

---------------------------------------------------------------------------
(* Initial state: analyze_repo is about to run on a valid repo_path *)

Init ==
    /\ disk \in Disks
    /\ phase = "readme"
    /\ wpc = "idle"
    /\ dirs_to_visit = <<>>
    /\ dirs_visited = {}
    /\ ignored_paths = <<>>
    /\ relative_path = <<>>
    /\ entries = <<>>
    /\ events = <<>>
    /\ readme_content = Unread
    /\ repo_structure = <<>>
    /\ file_contents = <<>>
    /\ tested = {}
    /\ log = <<>>
    /\ error = "none"
    /\ output_file = NoOutput

walker == <<wpc, dirs_to_visit, dirs_visited, ignored_paths, relative_path,
            entries, events>>

results == <<repo_structure, file_contents, tested>>

\* An exception leaves analyze_repo and reaches the handler of main.py:225.
Raise(what) ==
    /\ error' = what
    /\ phase' = "failed"
    /\ log' = Append(log, <<"error", <<what>>>>)

---------------------------------------------------------------------------
(* Actions *)

\* main.py:8-25 and 186, get_readme_content; then the first walker is created
\* (main.py:190).
ReadReadme ==
    /\ phase = "readme"
    /\ IF exists(README) /\ CanRead(README)
       THEN readme_content' = Content(README) /\ log' = log
       ELSE /\ readme_content' = Sentinel
            /\ log' = IF exists(README)
                      THEN Append(log, <<"warning", README>>) ELSE log
    /\ phase' = "structure"
    /\ wpc' = "start"
    /\ UNCHANGED <<disk, dirs_to_visit, dirs_visited, ignored_paths, relative_path,
                   entries, events, results, error, output_file>>

\* main.py:39-43: the generator's first step, with a readable ignore file.
WalkStart ==
    /\ wpc = "start"
    /\ IgnoreFileOpens(disk.ignore_file)
    /\ dirs_to_visit' = << <<>> >>
    /\ dirs_visited' = NewVisited(dirs_visited)
    /\ ignored_paths' = ReadIgnored(disk.ignore_file)
    /\ events' = <<>>
    /\ wpc' = "pop"
    /\ UNCHANGED <<disk, phase, relative_path, entries, readme_content, results,
                   log, error, output_file>>

\* main.py:42: open() raises; nothing catches it before main.py:225.
WalkStartFails ==
    /\ wpc = "start"
    /\ ~IgnoreFileOpens(disk.ignore_file)
    /\ Raise("ignore_file")
    /\ wpc' = "raised"
    /\ UNCHANGED <<disk, dirs_to_visit, dirs_visited, ignored_paths, relative_path,
                   entries, events, readme_content, results, output_file>>

\* main.py:45-49 and 54: a directory is popped and listed.
ExpandDir ==
    /\ wpc = "pop"
    /\ dirs_to_visit # <<>>
    /\ LET i   == PopIndex(dirs_to_visit)
           rel == dirs_to_visit[i]
       IN  /\ disk.listing[Lookup(rel)] = "ok"
           /\ dirs_to_visit' = Without(dirs_to_visit, i)
           /\ dirs_visited' = dirs_visited \cup {rel}
           /\ relative_path' = rel
           /\ \E order \in Listings(Lookup(rel)) :
                 /\ entries' = order
                 /\ events' = Append(events,
                        [kind |-> "expand", path |-> rel, listing |-> order])
                 /\ wpc' = IF order = <<>> THEN "pop" ELSE "entries"
    /\ UNCHANGED <<disk, phase, ignored_paths, readme_content, results, log,
                   error, output_file>>

\* main.py:45-52: listing the popped directory fails and the failure is caught.
SkipUnlistable ==
    /\ wpc = "pop"
    /\ dirs_to_visit # <<>>
    /\ LET i   == PopIndex(dirs_to_visit)
           rel == dirs_to_visit[i]
       IN  /\ disk.listing[Lookup(rel)] # "ok"
           /\ Catches(disk.listing[Lookup(rel)])
           /\ dirs_to_visit' = Without(dirs_to_visit, i)
           /\ dirs_visited' = dirs_visited \cup {rel}
           /\ relative_path' = rel
           /\ events' = Append(events,
                  [kind |-> "denied", path |-> rel, listing |-> <<>>])
           /\ log' = Append(log, <<"warning", rel>>)
    /\ UNCHANGED <<disk, phase, wpc, ignored_paths, entries, readme_content,
                   results, error, output_file>>

\* main.py:45-49: listing the popped directory fails with an error that the
\* except clause of main.py:50 does not name.
ListingRaises ==
    /\ wpc = "pop"
    /\ dirs_to_visit # <<>>
    /\ LET i   == PopIndex(dirs_to_visit)
           rel == dirs_to_visit[i]
       IN  /\ disk.listing[Lookup(rel)] # "ok"
           /\ ~Catches(disk.listing[Lookup(rel)])
           /\ dirs_to_visit' = Without(dirs_to_visit, i)
           /\ dirs_visited' = dirs_visited \cup {rel}
           /\ relative_path' = rel
           /\ events' = Append(events,
                  [kind |-> "raised", path |-> rel, listing |-> <<>>])
    /\ Raise("listdir")
    /\ wpc' = "raised"
    /\ UNCHANGED <<disk, ignored_paths, entries, readme_content, results,
                   output_file>>

\* The consumer's loop body for one yielded path: main.py:191 in the first
\* traversal, main.py:156-167 and 196 in the second.
Deliver(path) ==
    IF phase = "structure"
    THEN /\ repo_structure' = Append(repo_structure, path)
         /\ UNCHANGED <<file_contents, tested, log>>
    ELSE LET extension == splitext(path)
         IN  /\ tested' = tested \cup {<<path, extension>>}
             /\ repo_structure' = repo_structure
             /\ IF IsBinary(extension)
                THEN /\ log' = Append(log, <<"debug", path>>)
                     /\ file_contents' = file_contents
                ELSE IF isfile(path)
                THEN IF CanRead(path)
                     THEN /\ file_contents' =
                                Append(file_contents, <<path, Content(path)>>)
                          /\ log' = log
                     ELSE /\ log' = Append(log, <<"warning", path>>)
                          /\ file_contents' = file_contents
                ELSE UNCHANGED <<file_contents, log>>

NextEntry ==
    /\ entries' = Tail(entries)
    /\ wpc' = IF Tail(entries) = <<>> THEN "pop" ELSE "entries"

\* main.py:54-58: the entry's relative path is in the ignore list.
EntryIgnored ==
    /\ wpc = "entries"
    /\ LET entry == Head(entries)
           entry_relative_path == join(relative_path, entry)
       IN  IsIgnored(entry_relative_path, entry, ignored_paths)
    /\ NextEntry
    /\ UNCHANGED <<disk, phase, dirs_to_visit, dirs_visited, ignored_paths,
                   relative_path, events, readme_content, results, log, error,
                   output_file>>

\* main.py:59-62: the entry is a directory; unless visited, it is yielded and
\* pushed.
EntryDirectory ==
    /\ wpc = "entries"
    /\ LET entry == Head(entries)
           entry_relative_path == join(relative_path, entry)
       IN  /\ ~IsIgnored(entry_relative_path, entry, ignored_paths)
           /\ isdir(entry_relative_path)
           /\ Depth(entry_relative_path) <= MaxPathDepth   \* bound of the model
           /\ IF entry_relative_path \notin dirs_visited
              THEN /\ events' = Append(events,
                          [kind |-> "yield", path |-> entry_relative_path,
                           listing |-> <<>>])
                   /\ dirs_to_visit' = Append(dirs_to_visit, entry_relative_path)
                   /\ Deliver(entry_relative_path)
              ELSE UNCHANGED <<events, dirs_to_visit, results, log>>
    /\ NextEntry
    /\ UNCHANGED <<disk, phase, dirs_visited, ignored_paths, relative_path,
                   readme_content, error, output_file>>

\* main.py:63-64: any other entry is yielded.
EntryFile ==
    /\ wpc = "entries"
    /\ LET entry == Head(entries)
           entry_relative_path == join(relative_path, entry)
       IN  /\ ~IsIgnored(entry_relative_path, entry, ignored_paths)
           /\ ~isdir(entry_relative_path)
           /\ events' = Append(events,
                  [kind |-> "yield", path |-> entry_relative_path,
                   listing |-> <<>>])
           /\ Deliver(entry_relative_path)
    /\ NextEntry
    /\ UNCHANGED <<disk, phase, dirs_to_visit, dirs_visited, ignored_paths,
                   relative_path, readme_content, error, output_file>>

\* main.py:45: the stack is empty, the generator ends; analyze_repo goes on to
\* its next loop (main.py:195 creates the second walker) or returns.
WalkFinish ==
    /\ wpc = "pop"
    /\ dirs_to_visit = <<>>
    /\ IF phase = "structure"
       THEN phase' = "contents" /\ wpc' = "start"
       ELSE phase' = "write" /\ wpc' = "finished"
    /\ UNCHANGED <<disk, dirs_to_visit, dirs_visited, ignored_paths, relative_path,
                   entries, events, readme_content, results, log, error,
                   output_file>>

\* main.py:198-200 and 212-220: analyze_repo returns and the file is written.
WriteOutput ==
    /\ phase = "write"
    /\ output_file' = <<readme_content, repo_structure, file_contents>>
    /\ phase' = "done"
    /\ log' = Append(log, <<"info", <<"saved">>>>)
    /\ UNCHANGED <<disk, walker, readme_content, results, error>>

Next ==
    \/ ReadReadme
    \/ WalkStart
    \/ WalkStartFails
    \/ ExpandDir
    \/ SkipUnlistable
    \/ ListingRaises
    \/ EntryIgnored
    \/ EntryDirectory
    \/ EntryFile
    \/ WalkFinish
    \/ WriteOutput

Spec == Init /\ [][Next]_vars

---------------------------------------------------------------------------
(* Vocabulary of the properties *)

\* The running (or just finished) generator has run to its end.
WalkerFinished ==
    \/ phase = "contents" /\ wpc = "start"
    \/ phase \in {"write", "done"}

\* p is, or lies under, the path d.
AtOrUnder(p, d) == p = d \/ startswith(p, d \o <<SEP>>)

\* p lies strictly under the directory d (the root is <<>>).
StrictlyUnder(p, d) ==
    IF d = <<>> THEN p # <<>> ELSE startswith(p, d \o <<SEP>>)

\* The directory a relative path is an entry of.
Parent(p) ==
    IF rfind(p, SEP) = 0 THEN <<>> ELSE SubSeq(p, 1, rfind(p, SEP) - 1)

LastSegment(p) == SubSeq(p, rfind(p, SEP) + 1, Len(p))

\* Every relative path of the repository (cut off below MaxPathDepth
\* directories, which only matters on a symlink cycle).
RECURSIVE PathsUnder(_, _)
PathsUnder(n, rel) ==
    UNION {LET p == IF rel = <<>> THEN e[1] ELSE rel \o <<SEP>> \o e[1]
           IN  {p} \cup (IF e[2] \in Dirs /\ Depth(p) <= MaxPathDepth
                         THEN PathsUnder(e[2], p) ELSE {})
           : e \in Entries(n)}

AllPaths == PathsUnder("root", <<>>)

\* Neither p nor a directory above it is an entry of the ignore list.
NotPruned(p) == \A E \in Range(ignored_paths) : ~AtOrUnder(p, E)

\* The directories above p, the root (<<>>) among them.
Ancestors(p) ==
    IF p = <<>> THEN {}
    ELSE {<<>>} \cup {SubSeq(p, 1, i - 1) : i \in {k \in 1..Len(p) : p[k] = SEP}}

\* Every directory above p can be listed.
Listable(p) == \A q \in Ancestors(p) : disk.listing[Lookup(q)] = "ok"

IndexOfExpansion(p) ==
    {i \in 1..Len(events) :
        events[i].path = p /\ events[i].kind \in {"expand", "denied", "raised"}}

\* The extension as the specification words it: the final segment from its
\* last dot on, empty without a dot.
SpecExtension(p) ==
    LET seg == LastSegment(p)
    IN  IF rfind(seg, ".") = 0 THEN <<>>
        ELSE SubSeq(seg, rfind(seg, "."), Len(seg))

\* The extension of a file name: its suffix from the last dot on, when
\* something other than dots comes before that dot; otherwise empty.
Extension(p) ==
    LET seg   == LastSegment(p)
        cands == {i \in 1..Len(seg) :
                     /\ seg[i] = "."
                     /\ \A j \in (i + 1)..Len(seg) : seg[j] # "."
                     /\ \E k \in 1..(i - 1) : seg[k] # "."}
    IN  IF cands = {} THEN <<>>
        ELSE SubSeq(seg, CHOOSE i \in cands : TRUE, Len(seg))

---------------------------------------------------------------------------
(* Properties *)

\* C1: no yielded relative path equals an entry of the ignore list, and no
\* yielded path lies under a directory whose relative path equals one.
C1_IgnoredNeverYielded ==
    \A e \in Range(Yielded) : \A E \in Range(ignored_paths) :
        e.path # E /\ ~startswith(e.path, E \o <<SEP>>)

\* A traversal ended that had an existing directory with content in its
\* ignore list, and yielded other paths.
C1_Witness ==
    /\ WalkerFinished
    /\ Yielded # <<>>
    /\ \E E \in Range(ignored_paths) : isdir(E) /\ Entries(Lookup(E)) # {}

\* C2: the extractor never emits a (path, content) pair for a file whose
\* extension is in the denylist, while the traversal over the same root and
\* ignore list did yield the path of every such file it could reach.
C2_BinaryListedNotExtracted ==
    /\ \A i \in 1..Len(file_contents) :
          Extension(file_contents[i][1]) \notin binary_extensions
    /\ phase \in {"write", "done"} =>
          \A p \in AllPaths :
              (/\ NotPruned(p) /\ Listable(p)
               /\ isfile(p) /\ Extension(p) \in binary_extensions)
              => p \in Range(repo_structure)

\* Both traversals ended; a denylisted file was listed and skipped, and some
\* other file's content was emitted.
C2_Witness ==
    /\ phase = "write"
    /\ file_contents # <<>>
    /\ \E p \in Range(repo_structure) :
          /\ isfile(p) /\ Extension(p) \in binary_extensions
          /\ \E t \in tested : t[1] = p

\* C3: a permission error on listing a popped directory does not raise; the
\* directory is skipped, nothing beneath it is yielded, and every other
\* queued directory is still expanded, so the entries of every directory
\* that can be reached and listed are yielded.
C3_DeniedDirectorySkipped ==
    /\ \A e \in Range(events) :
          /\ e.kind = "raised" => disk.listing[Lookup(e.path)] # "perm"
          /\ e.kind = "denied" =>
                \A y \in Range(Yielded) : ~StrictlyUnder(y.path, e.path)
    /\ WalkerFinished =>
          \A p \in AllPaths : NotPruned(p) /\ Listable(p) => p \in YieldedPaths

\* A traversal ended in which a directory was skipped on a permission error
\* and entries of another directory were yielded after that.
C3_Witness ==
    /\ WalkerFinished
    /\ \E i, j \in 1..Len(events) :
          i < j /\ events[i].kind = "denied" /\ events[j].kind = "yield"

\* C4: no failure to list one directory, or to read one file, propagates
\* out of the traversal or the extraction.
C4_PerItemFailuresContained ==
    /\ error # "listdir"
    /\ \A e \in Range(events) : e.kind # "raised"

\* C5: the visited-set check keeps a directory that was already expanded
\* from being queued again, also when an entry leads back to it (a symlink
\* cycle); this is what lets the work queue empty on every finite graph.
C5_ExpandedNeverRequeued ==
    \A i \in 1..Len(dirs_to_visit) : \A e \in Range(events) :
        e.kind = "expand" => Lookup(e.path) # Lookup(dirs_to_visit[i])

\* C6: with the ignore file missing or unreadable analyze_repo raises after
\* the README was read, returns no artifact, and no output file is written.
C6_MissingIgnoreFileAborts ==
    ~disk.ignore_file.present =>
        /\ output_file = NoOutput
        /\ \/ phase = "readme"
           \/ phase = "structure" /\ wpc = "start"
           \/ /\ phase = "failed"
              /\ error = "ignore_file"
              /\ readme_content # Unread
              /\ repo_structure = <<>> /\ file_contents = <<>>

C6_Witness ==
    ~disk.ignore_file.present /\ phase = "failed" /\ readme_content # Unread

\* C7: two traversals of the same disk that ran to their end yielded the
\* same set of relative paths, whatever the listing orders were.
C7_SameSetOfPaths ==
    phase \in {"write", "done"} => Range(repo_structure) = YieldedPaths

\* Both traversals ended and yielded their paths in different orders.
C7_Witness ==
    /\ phase = "write"
    /\ Len(repo_structure) = Len(Yielded)
    /\ \E i \in 1..Len(repo_structure) : repo_structure[i] # Yielded[i].path

\* C8: on a tree whose directories can all be listed, a traversal that ran
\* to its end yielded each path that is neither in the ignore list nor under
\* a directory in it exactly once, nothing else, and not the root.
C8_ExactlyTheUnignoredPaths ==
    (/\ WalkerFinished
     /\ disk.link = NoNode
     /\ \A d \in Dirs : disk.listing[d] = "ok")
    => /\ YieldedPaths = {p \in AllPaths : NotPruned(p)}
       /\ \A i, j \in 1..Len(Yielded) : i # j => Yielded[i].path # Yielded[j].path
       /\ <<>> \notin YieldedPaths

\* Such a traversal ended, with part of the tree pruned and part yielded.
C8_Witness ==
    /\ WalkerFinished
    /\ disk.link = NoNode
    /\ \A d \in Dirs : disk.listing[d] = "ok"
    /\ Len(Yielded) >= 3
    /\ \E p \in AllPaths : ~NotPruned(p)

\* C9 as stated: the extension tested is the final segment from its last dot
\* on, also when that dot is the segment's first character.
C9_ExtensionFromLastDot ==
    \A t \in tested : t[2] = SpecExtension(t[1])

\* C9, amended: the extension tested is the final segment from its last dot
\* on when a character other than a dot precedes that dot in the segment,
\* and empty otherwise; a path is skipped as binary exactly when that
\* extension is in the denylist.
C9_ExtensionIgnoresLeadingDots ==
    /\ \A t \in tested : t[2] = Extension(t[1])
    /\ \A t \in tested :
          (isfile(t[1]) /\ CanRead(t[1]))
          => (Extension(t[1]) \notin binary_extensions
                <=> \E i \in 1..Len(file_contents) : file_contents[i][1] = t[1])

\* The extractor tested a file whose name starts with its only dot and
\* emitted its content.
C9_Witness ==
    \E t \in tested :
        /\ LastSegment(t[1]) = <<".", "p", "n", "g">>
        /\ t[2] = <<>>
        /\ \E i \in 1..Len(file_contents) : file_contents[i][1] = t[1]

\* C10: directories are expanded last-in first-out.  Of two subdirectories
\* of one directory, the one listed later is expanded first, and once the one
\* listed earlier has been expanded nothing at or under the later one is
\* yielded, expanded or still queued; the entries of a directory are yielded
\* right at its expansion, before any other directory is expanded.
C10_LifoExpansion ==
    \A i \in 1..Len(events) :
        events[i].kind = "expand" =>
            LET d == events[i].path
                L == events[i].listing
                child(k) == IF d = <<>> THEN L[k] ELSE d \o <<SEP>> \o L[k]
            IN  /\ \A a, b \in 1..Len(L) :
                      a < b =>
                        \A ia \in IndexOfExpansion(child(a)) :
                            (isdir(child(b)) /\ NotPruned(child(b))) =>
                                /\ \E ib \in IndexOfExpansion(child(b)) : ib < ia
                                /\ \A k \in ia..Len(events) :
                                      ~AtOrUnder(events[k].path, child(b))
                                /\ \A q \in Range(dirs_to_visit) :
                                      ~AtOrUnder(q, child(b))
                /\ \A k \in (i + 1)..Len(events) :
                      (events[k].kind = "yield" /\ Parent(events[k].path) = d)
                      => \A j \in (i + 1)..k : events[j].kind = "yield"

\* A traversal ended in which s.ts was listed after t: s.ts and s.ts/s.ts
\* were expanded before t was.
C10_Witness ==
    /\ WalkerFinished
    /\ \E i, j, k \in 1..Len(events) :
          /\ i < j /\ j < k
          /\ events[i].kind = "expand" /\ events[i].path = N_s
          /\ events[j].kind = "expand" /\ events[j].path = N_s \o <<SEP>> \o N_s
          /\ events[k].kind = "expand" /\ events[k].path = N_t

====
